---- MODULE Spec2Model ----
(***************************************************************************)
(* Event sensor (custom_components/eventsensor/sensor.py).                 *)
(*                                                                         *)
(* A sensor entity mirrors the most recent matching bus event into a state *)
(* value and an attributes mapping.  The model covers the entity           *)
(* (EventSensor), its event callback, its add/remove lifecycle, and the    *)
(* config-entry functions async_setup_entry and update_listener.           *)
(***************************************************************************)
EXTENDS Integers, Sequences, FiniteSets, TLC

(***************************************************************************)
(* Python values.  A value is a record [t, m, e, s]:                        *)
(*   t = "none"      None                                                  *)
(*   t = "int"       the integer m                                         *)
(*   t = "float"     the decimal m / 10^e, normalised (no trailing zero    *)
(*                   fractional digit), so 1.0 is (m = 1, e = 0) and 1.5   *)
(*                   is (m = 15, e = 1)                                    *)
(*   t = "str"       the text s                                            *)
(*   t = "datetime"  the instant m                                         *)
(***************************************************************************)
None == [t |-> "none", m |-> 0, e |-> 0, s |-> ""]

PyInt(i) == [t |-> "int", m |-> i, e |-> 0, s |-> ""]

RECURSIVE Normalise(_, _)
Normalise(m, e) ==
    IF e > 0 /\ m % 10 = 0 THEN Normalise(m \div 10, e - 1) ELSE <<m, e>>

PyFloat(m, e) ==
    LET n == Normalise(m, e) IN [t |-> "float", m |-> n[1], e |-> n[2], s |-> ""]

PyStr(s) == [t |-> "str", m |-> 0, e |-> 0, s |-> s]

PyTime(n) == [t |-> "datetime", m |-> n, e |-> 0, s |-> ""]

IsNum(v) == v.t \in {"int", "float"}

\* Python's ==: an int and a float are equal when they denote the same number.
PyEq(a, b) ==
    IF IsNum(a) /\ IsNum(b) THEN a.m = b.m /\ a.e = b.e ELSE a = b

(***************************************************************************)
(* Python dicts are insertion-ordered: a dict is a sequence of <<key,      *)
(* value>> pairs whose keys are pairwise different under PyEq.             *)
(***************************************************************************)
EmptyDict == <<>>

DictHas(d, k) == \E i \in DOMAIN d : PyEq(d[i][1], k)

DictGet(d, k) == d[CHOOSE i \in DOMAIN d : PyEq(d[i][1], k)][2]

\* d[k] = v: an existing key keeps its place and its key object, a new key is
\* appended.
DictSet(d, k, v) ==
    IF DictHas(d, k)
    THEN [i \in DOMAIN d |-> IF PyEq(d[i][1], k) THEN <<d[i][1], v>> ELSE d[i]]
    ELSE Append(d, <<k, v>>)

\* (k, v) in d.items()
ItemIn(k, v, d) == DictHas(d, k) /\ PyEq(DictGet(d, k), v)

\* Python's d1 == d2 for dicts: same length, every item of one in the other.
DictEq(d1, d2) ==
    /\ Len(d1) = Len(d2)
    /\ \A i \in DOMAIN d1 : ItemIn(d1[i][1], d1[i][2], d2)

(***************************************************************************)
(* Text as characters.  TLC cannot take a string apart, so the texts that  *)
(* configurations use are listed with their characters; every other text   *)
(* of the model ("origin", "LOCAL", "btn", ...) starts with a letter.      *)
(***************************************************************************)
Chars(s) ==
    CASE s = ""     -> <<>>
      [] s = "1"    -> <<"1">>
      [] s = "2"    -> <<"2">>
      [] s = "01"   -> <<"0", "1">>
      [] s = "-1"   -> <<"-", "1">>
      [] s = "+1"   -> <<"+", "1">>
      [] s = " 1 "  -> <<" ", "1", " ">>
      [] s = "1.0"  -> <<"1", ".", "0">>
      [] s = "1.5"  -> <<"1", ".", "5">>
      [] s = "1."   -> <<"1", ".">>
      [] s = ".5"   -> <<".", "5">>
      [] s = "-.5"  -> <<"-", ".", "5">>
      [] s = "."    -> <<".">>
      [] s = "-"    -> <<"-">>
      [] s = "1.5.0" -> <<"1", ".", "5", ".", "0">>
      [] s = "1a"   -> <<"1", "a">>
      [] s = "1 1"  -> <<"1", " ", "1">>
      [] OTHER      -> <<"a">>

Digits == {"0", "1", "2", "5"}

DigitVal(c) == CASE c = "0" -> 0 [] c = "1" -> 1 [] c = "2" -> 2 [] c = "5" -> 5

\* str.strip(): int() and float() ignore surrounding whitespace.
RECURSIVE Strip(_)
Strip(cs) ==
    IF cs = <<>> THEN cs
    ELSE IF Head(cs) = " " THEN Strip(Tail(cs))
    ELSE IF cs[Len(cs)] = " " THEN Strip(SubSeq(cs, 1, Len(cs) - 1))
    ELSE cs

HasSign(cs) == cs /= <<>> /\ Head(cs) \in {"-", "+"}

Unsigned(cs) == IF HasSign(cs) THEN Tail(cs) ELSE cs

Sign(cs) == IF cs /= <<>> /\ Head(cs) = "-" THEN -1 ELSE 1

RECURSIVE DigitsValue(_)
DigitsValue(cs) ==
    IF cs = <<>> THEN 0
    ELSE 10 * DigitsValue(SubSeq(cs, 1, Len(cs) - 1)) + DigitVal(cs[Len(cs)])

\* int(text) succeeds: optional sign, then one or more decimal digits.
IntOk(cs) ==
    LET u == Unsigned(Strip(cs))
    IN  u /= <<>> /\ \A i \in DOMAIN u : u[i] \in Digits

IntOf(cs) == Sign(Strip(cs)) * DigitsValue(Unsigned(Strip(cs)))

\* float(text) succeeds: optional sign, digits with at most one point, and at
\* least one digit.
FloatOk(cs) ==
    LET u == Unsigned(Strip(cs))
    IN  /\ \A i \in DOMAIN u : u[i] \in Digits \cup {"."}
        /\ Cardinality({i \in DOMAIN u : u[i] = "."}) <= 1
        /\ \E i \in DOMAIN u : u[i] \in Digits

FloatOf(cs) ==
    LET u    == Unsigned(Strip(cs))
        dot  == IF \E i \in DOMAIN u : u[i] = "."
                THEN CHOOSE i \in DOMAIN u : u[i] = "."
                ELSE Len(u) + 1
        digs == SubSeq(u, 1, dot - 1) \o SubSeq(u, dot + 1, Len(u))
    IN  PyFloat(Sign(Strip(cs)) * DigitsValue(digs), Len(u) - dot + (IF dot > Len(u) THEN 1 ELSE 0))

RECURSIVE Pow10(_)
Pow10(n) == IF n = 0 THEN 1 ELSE 10 * Pow10(n - 1)

\* int(x) of a float truncates towards zero.
Trunc(m, e) ==
    IF m >= 0 THEN m \div Pow10(e) ELSE -((-m) \div Pow10(e))

\* A variant of the coercion that tries float() before int().
_parse_field_float_first(raw_key) ==
    CASE raw_key.t = "str" ->
            IF FloatOk(Chars(raw_key.s)) THEN FloatOf(Chars(raw_key.s))
            ELSE IF IntOk(Chars(raw_key.s)) THEN PyInt(IntOf(Chars(raw_key.s)))
            ELSE raw_key
      [] raw_key.t = "int" -> raw_key
      [] raw_key.t = "float" -> PyInt(Trunc(raw_key.m, raw_key.e))

(***************************************************************************)
(* EventSensor.__init__._parse_field: int(raw), on ValueError float(raw),  *)
(* on ValueError raw itself.  A raw text goes through the two parsers; a   *)
(* raw number (a configuration imported from YAML may hold one) never      *)
(* raises in int(): an int is returned as it is and a float is truncated.  *)
(***************************************************************************)
_parse_field(raw_key) ==
    CASE raw_key.t = "str" ->
            IF IntOk(Chars(raw_key.s)) THEN PyInt(IntOf(Chars(raw_key.s)))
            ELSE IF FloatOk(Chars(raw_key.s)) THEN FloatOf(Chars(raw_key.s))
            ELSE raw_key
      [] raw_key.t = "int" -> raw_key
      [] raw_key.t = "float" -> PyInt(Trunc(raw_key.m, raw_key.e))

\* { _parse_field(key): _parse_field(value) for key, value in raw.items() }
RECURSIVE ParsedDict(_)
ParsedDict(raw) ==
    IF raw = <<>> THEN EmptyDict
    ELSE LET n == Len(raw)
         IN  DictSet(ParsedDict(SubSeq(raw, 1, n - 1)),
                     _parse_field(raw[n][1]), _parse_field(raw[n][2]))

\* sensor_data.get(key, default)
ConfGet(sensor_data, key, default) ==
    IF key \in DOMAIN sensor_data THEN sensor_data[key] ELSE default

(***************************************************************************)
(* make_unique_id lives in common.py: a deterministic function of the      *)
(* configuration, "made with the event name and data filters".             *)
(***************************************************************************)
make_unique_id(sensor_data) ==
    <<ConfGet(sensor_data, "event", None), ConfGet(sensor_data, "event_data", EmptyDict)>>

(***************************************************************************)
(* Bounds and input sets.                                                  *)
(***************************************************************************)
\* Events carry a fired timestamp in 1..MaxTime.
MaxTime == 2

\* Callbacks one entity may hold on the bus at once.
MaxListeners == 2

\* Calls of update_listener, and reloads, created and not yet run.
MaxTasks == 2

S(x) == PyStr(x)

\* Sensor configurations (the config entry's data): name, event, state and the
\* optional event_data and state_map, whose keys and values are raw.
Configs ==
    { [name |-> "A", event |-> "ev", state |-> "btn"],
      [name |-> "A", event |-> "ev", state |-> "btn",
       event_data |-> << <<S("btn"), S("1")>> >>,
       state_map  |-> << <<S("1"), S("on")>>, <<S("on"), S("off")>> >>],
      [name |-> "B", event |-> "ev", state |-> "btn",
       event_data |-> << <<S("id"), S("1.5")>> >>,
       state_map  |-> << <<S("1.0"), S("2")>> >>],
      [name |-> "B", event |-> "ev", state |-> "btn",
       event_data |-> << <<S("1"), S("x")>>, <<S("01"), S("y")>> >>],
      [name |-> "C", event |-> "ev", state |-> "btn",
       event_data |-> << <<S("id"), PyFloat(15, 1)>> >>,
       state_map  |-> << <<S("x"), S("1a")>> >>] }

Origins == {"local", "remote"}

EventDatas ==
    { EmptyDict,
      << <<S("btn"), PyInt(1)>> >>,
      << <<S("btn"), PyInt(1)>>, <<S("id"), PyFloat(15, 1)>> >>,
      << <<S("id"), PyInt(1)>>, <<S("btn"), PyFloat(1, 0)>> >>,
      << <<S("id"), PyFloat(15, 1)>> >>,
      << <<S("id"), PyFloat(15, 1)>>, <<S("x"), PyInt(2)>> >>,
      << <<S("btn"), S("x")>>, <<S("origin"), S("mine")>>, <<S("time_fired"), PyInt(0)>> >>,
      << <<PyFloat(1, 0), S("y")>>, <<S("btn"), PyFloat(15, 1)>> >>,
      << <<S("btn"), PyInt(2)>>, <<S("id"), PyInt(2)>> >> }

Times == {PyTime(n) : n \in 1..MaxTime}

\* Events of the type the sensors are configured for, and events of another
\* type, which the bus gives to other listeners only.
Events ==
    [event_type : {"ev"}, data : EventDatas, origin : Origins, time_fired : Times]
    \cup [event_type : {"other"}, data : {<< <<S("btn"), PyInt(1)>>, <<S("id"), PyFloat(15, 1)>> >>},
          origin : {"local"}, time_fired : Times]

\* What the options flow may store: a full configuration, or a lone key.
OptionChoices == Configs \cup {[name |-> "D"]}

\* What the host's restore helper may return.
LastStates ==
    { [state |-> S("old"), attributes |-> << <<S("k"), PyInt(7)>> >>],
      [state |-> S("unknown"), attributes |-> EmptyDict] }

PyListener(i) == [t |-> "listener", m |-> i, e |-> 0, s |-> ""]

NoEvent == [event_type |-> "", data |-> EmptyDict, origin |-> "", time_fired |-> None]

NoCall == [event |-> NoEvent, calls |-> 0, result |-> "none", writes |-> 0]

VARIABLES
    entry,            \* the config entry: data, options, title, unique_id
    entry_state,      \* "not_loaded" or "loaded": whether the host has set it up
    domain_data,      \* hass.data[DOMAIN_DATA]: whether it exists, the entry ids in it
    update_listeners, \* update listeners registered on the entry
    listener_calls,   \* update_listener calls the host has created and not yet run
    reload_tasks,     \* reloads of the entry created and not yet run
    last_update,      \* what the last update_listener call did
    sensor_data,      \* the configuration the entity was built from
    _name, _event, _state_key, _event_data, _state_map, _unique_id,
    _event_listener,  \* the remove handle async_listen returned, or None
    _state, _attributes,
    lifecycle,        \* "absent" (none built yet), "constructed", "restoring" (in
                      \* the await of the restore), "added", "removed"
    last_state,       \* async_added_to_hass's local: what the restore returned
    bus_listeners,    \* the entity's callbacks registered on the bus for _event
    last,             \* the last event fired on the bus and what the callback did
    last_accepted     \* the last event accepted since the entity was added

entry_vars ==
    <<entry, entry_state, domain_data, update_listeners, listener_calls, reload_tasks,
      last_update>>

vars ==
    <<entry, entry_state, domain_data, update_listeners, listener_calls, reload_tasks,
      last_update, sensor_data, _name, _event, _state_key, _event_data, _state_map, _unique_id,
      _event_listener, _state, _attributes, lifecycle, last_state, bus_listeners,
      last, last_accepted>>

config_vars == <<sensor_data, _name, _event, _state_key, _event_data, _state_map, _unique_id>>

(***************************************************************************)
(* EventSensor.__init__, lines 121-149: the fields of a new entity.        *)
(***************************************************************************)
\* A variant of the constructor that makes the unique id with the name in place
\* of the event.
EventSensor_init_id_from_name(data) ==
    [sensor_data |-> data,
     _name |-> ConfGet(data, "name", None),
     _event |-> ConfGet(data, "event", None),
     _state_key |-> ConfGet(data, "state", None),
     _event_data |-> ParsedDict(ConfGet(data, "event_data", EmptyDict)),
     _state_map |-> ParsedDict(ConfGet(data, "state_map", EmptyDict)),
     _unique_id |-> <<ConfGet(data, "name", None), ConfGet(data, "event_data", EmptyDict)>>,
     _event_listener |-> None,
     _state |-> None,
     _attributes |-> EmptyDict]

EventSensor_init(data) ==
    [sensor_data |-> data,
     _name |-> ConfGet(data, "name", None),
     _event |-> ConfGet(data, "event", None),
     _state_key |-> ConfGet(data, "state", None),
     _event_data |-> ParsedDict(ConfGet(data, "event_data", EmptyDict)),
     _state_map |-> ParsedDict(ConfGet(data, "state_map", EmptyDict)),
     _unique_id |-> make_unique_id(data),
     _event_listener |-> None,
     _state |-> None,
     _attributes |-> EmptyDict]

\* The entry's id.
ENTRY_ID == "entry1"

\* sensor_data of an entity that does not exist yet.
NoData == <<>>

(***************************************************************************)
(* The host has loaded a config entry that the config flow created, and    *)
(* has not set it up yet: no entity exists.                                *)
(***************************************************************************)
Init ==
    /\ \E data \in Configs :
          entry = [data |-> data, options |-> NoData, title |-> data.name,
                   unique_id |-> make_unique_id(data)]
    /\ entry_state = "not_loaded"
    /\ domain_data = [present |-> FALSE, entries |-> {}]
    /\ update_listeners = 0
    /\ listener_calls = 0
    /\ reload_tasks = 0
    /\ last_update = "none"
    /\ sensor_data = NoData
    /\ _name = ""
    /\ _event = ""
    /\ _state_key = ""
    /\ _event_data = EmptyDict
    /\ _state_map = EmptyDict
    /\ _unique_id = None
    /\ _event_listener = None
    /\ _state = None
    /\ _attributes = EmptyDict
    /\ lifecycle = "absent"
    /\ last_state = None
    /\ bus_listeners = {}
    /\ last = NoCall
    /\ last_accepted = NoEvent

\* A variant of the filter test that compares the keys only.
ItemsProperSubsetKeysOnly(filter, data) ==
    /\ Len(filter) < Len(data)
    /\ \A i \in DOMAIN filter : DictHas(data, filter[i][1])

(***************************************************************************)
(* The callback's test, line 182: filter.items() < data.items().  On dict  *)
(* item views "<" is the proper-subset test: fewer items, each of them in  *)
(* the other view.                                                         *)
(***************************************************************************)
ItemsProperSubset(filter, data) ==
    /\ Len(filter) < Len(data)
    /\ \A i \in DOMAIN filter : ItemIn(filter[i][1], filter[i][2], data)

\* A variant of the remap that looks the mapped value up again.
NewStateRemappedTwice(state_map, state_key, data) ==
    LET new_state == DictGet(data, S(state_key))
        once == IF DictHas(state_map, new_state) THEN DictGet(state_map, new_state) ELSE new_state
    IN  IF DictHas(state_map, once) THEN DictGet(state_map, once) ELSE once

\* Lines 183-185: the extracted value, remapped once when it is a key of the table.
NewState(state_map, state_key, data) ==
    LET new_state == DictGet(data, S(state_key))
    IN  IF DictHas(state_map, new_state) THEN DictGet(state_map, new_state) ELSE new_state

\* A variant of the attributes in which the event data wins over the two labels.
NewAttributesDataWins(event) ==
    LET a == DictSet(event.data, S("origin"),
                     IF DictHas(event.data, S("origin"))
                     THEN DictGet(event.data, S("origin")) ELSE S(event.origin))
    IN  DictSet(a, S("time_fired"),
                IF DictHas(event.data, S("time_fired"))
                THEN DictGet(event.data, S("time_fired")) ELSE event.time_fired)

\* Lines 188-192: {**event.data, "origin": ..., "time_fired": ...}
NewAttributes(event) ==
    DictSet(DictSet(event.data, S("origin"), S(event.origin)),
            S("time_fired"), event.time_fired)

\* One call of the callback on `event`: the entity's new state and attributes,
\* how the call ended and the host state writes it made.
UpdateSensor(event) ==
    IF ItemsProperSubset(_event_data, event.data)
    THEN IF DictHas(event.data, S(_state_key))
         THEN [state |-> NewState(_state_map, _state_key, event.data),
               attributes |-> NewAttributes(event),
               result |-> "accepted", writes |-> 1]
         ELSE [state |-> _state, attributes |-> _attributes,
               result |-> "raised", writes |-> 0]   \* KeyError at line 183
    ELSE [state |-> _state, attributes |-> _attributes,
          result |-> "ignored", writes |-> 0]

\* The bus delivers an event of the entity's type to each callback the entity
\* has registered.
async_update_sensor(event) ==
    /\ bus_listeners /= {}
    /\ event.event_type = _event
    /\ LET r == UpdateSensor(event)
           n == Cardinality(bus_listeners)
       IN  /\ _state' = r.state
           /\ _attributes' = r.attributes
           /\ last' = [event |-> event, calls |-> n, result |-> r.result,
                       writes |-> n * r.writes]
           /\ last_accepted' = IF r.result = "accepted" THEN event ELSE last_accepted
    /\ UNCHANGED <<entry_vars, config_vars, _event_listener, lifecycle, last_state, bus_listeners>>

\* An event no callback of the entity hears: another type, or nothing registered.
bus_fire_unheard(event) ==
    /\ bus_listeners = {} \/ event.event_type /= _event
    /\ last' = [event |-> event, calls |-> 0, result |-> "none", writes |-> 0]
    /\ UNCHANGED <<entry_vars, config_vars, _event_listener, _state, _attributes, lifecycle,
                   last_state, bus_listeners, last_accepted>>

(***************************************************************************)
(* async_added_to_hass, lines 171-205.  The coroutine suspends once, in    *)
(* the await of the restore; the rest runs without yielding.               *)
(***************************************************************************)
\* bus.async_listen: a fresh remove handle.
NewListener ==
    PyListener(CHOOSE i \in 1..(MaxListeners + 1) :
                  /\ PyListener(i) \notin bus_listeners
                  /\ \A j \in 1..(i - 1) : PyListener(j) \in bus_listeners)

\* A variant of the add that subscribes before it awaits the restore.
async_added_to_hass_await_subscribed ==
    /\ lifecycle = "constructed"
    /\ lifecycle' = "restoring"
    /\ _event_listener' = NewListener
    /\ bus_listeners' = bus_listeners \cup {NewListener}
    /\ UNCHANGED <<entry_vars, config_vars, _state, _attributes, last_state,
                   last, last_accepted>>

\* The host adds an entity object to a platform once, after building it.
async_added_to_hass_await ==
    /\ lifecycle = "constructed"
    /\ lifecycle' = "restoring"
    /\ UNCHANGED <<entry_vars, config_vars, _event_listener, _state, _attributes, last_state,
                   bus_listeners, last, last_accepted>>

\* async_added_to_hass called again on an entity that was added: the code has
\* no guard, so the call starts like the first one and awaits the restore
\* (line 174) with whatever the entity holds and has on the bus.
async_added_to_hass_again_await ==
    /\ lifecycle \in {"added", "removed"}
    /\ lifecycle' = "restoring"
    /\ UNCHANGED <<entry_vars, config_vars, _event_listener, _state, _attributes, last_state,
                   bus_listeners, last, last_accepted>>

\* A variant of the restore that takes the state and leaves the attributes.
async_added_to_hass_resume_state_only(restored) ==
    /\ lifecycle = "restoring"
    /\ Cardinality(bus_listeners) < MaxListeners
    /\ last_state' = restored
    /\ IF restored /= None
       THEN /\ _state' = restored.state
            /\ UNCHANGED _attributes
       ELSE UNCHANGED <<_state, _attributes>>
    /\ _event_listener' = NewListener
    /\ bus_listeners' = bus_listeners \cup {NewListener}
    /\ lifecycle' = "added"
    /\ last' = NoCall
    /\ last_accepted' = NoEvent
    /\ UNCHANGED <<entry_vars, config_vars>>

async_added_to_hass_resume(restored) ==
    /\ lifecycle = "restoring"
    /\ Cardinality(bus_listeners) < MaxListeners
    /\ last_state' = restored
    /\ IF restored /= None
       THEN /\ _state' = restored.state
            /\ _attributes' = restored.attributes
       ELSE UNCHANGED <<_state, _attributes>>
    /\ _event_listener' = NewListener
    /\ bus_listeners' = bus_listeners \cup {NewListener}
    /\ lifecycle' = "added"
    /\ last' = NoCall
    /\ last_accepted' = NoEvent
    /\ UNCHANGED <<entry_vars, config_vars>>

(***************************************************************************)
(* async_will_remove_from_hass, lines 207-212.                             *)
(***************************************************************************)
\* A variant of the removal that forgets the handle without calling it.
async_will_remove_from_hass_handle_not_called ==
    /\ lifecycle \notin {"absent", "restoring"}
    /\ _event_listener' = None
    /\ lifecycle' = IF lifecycle = "added" THEN "removed" ELSE lifecycle
    /\ last' = NoCall
    /\ UNCHANGED <<entry_vars, config_vars, bus_listeners, _state, _attributes, last_state, last_accepted>>

async_will_remove_from_hass ==
    /\ lifecycle \notin {"absent", "restoring"}
    /\ IF _event_listener /= None
       THEN /\ bus_listeners' = bus_listeners \ {_event_listener}
            /\ _event_listener' = None
       ELSE UNCHANGED <<bus_listeners, _event_listener>>
    /\ lifecycle' = IF lifecycle = "added" THEN "removed" ELSE lifecycle
    /\ last' = NoCall
    /\ UNCHANGED <<entry_vars, config_vars, _state, _attributes, last_state, last_accepted>>

(***************************************************************************)
(* The host's ConfigEntries.async_update_entry: it stores what it is given *)
(* and creates one call of every update listener of the entry.  Hosts      *)
(* differ on an update that changes nothing: some notify the listeners     *)
(* all the same, some do not.                                              *)
(***************************************************************************)
Notifies(old, new) == IF new = old THEN BOOLEAN ELSE {TRUE}

\* Python's == on two configuration dicts: the same keys, equal values.
ConfEq(a, b) ==
    /\ DOMAIN a = DOMAIN b
    /\ \A k \in DOMAIN a :
          IF k \in {"event_data", "state_map"} THEN DictEq(a[k], b[k]) ELSE a[k] = b[k]

\* A variant of the setup that registers an update listener on every call.
async_setup_entry_always_listens ==
    /\ entry_state = "not_loaded"
    /\ lifecycle \in {"absent", "removed"}
    /\ \E self \in {EventSensor_init(entry.data)} :
       LET known == ENTRY_ID \in domain_data.entries
       IN  /\ \E notify \in (IF known THEN Notifies(entry, entry) ELSE {FALSE}) :
                 /\ listener_calls + update_listeners <= MaxTasks
                 /\ listener_calls' =
                       IF notify THEN listener_calls + update_listeners ELSE listener_calls
           /\ sensor_data' = self.sensor_data
           /\ _name' = self._name
           /\ _event' = self._event
           /\ _state_key' = self._state_key
           /\ _event_data' = self._event_data
           /\ _state_map' = self._state_map
           /\ _unique_id' = self._unique_id
           /\ _event_listener' = self._event_listener
           /\ _state' = self._state
           /\ _attributes' = self._attributes
           /\ domain_data' = [present |-> TRUE, entries |-> domain_data.entries \cup {ENTRY_ID}]
           /\ update_listeners' = update_listeners + 1
    /\ entry_state' = "loaded"
    /\ lifecycle' = "constructed"
    /\ last_state' = None
    /\ last' = NoCall
    /\ last_accepted' = NoEvent
    /\ UNCHANGED <<entry, reload_tasks, last_update, bus_listeners>>

(***************************************************************************)
(* async_setup_entry, lines 64-92.                                         *)
(***************************************************************************)
async_setup_entry ==
    /\ entry_state = "not_loaded"
    /\ lifecycle \in {"absent", "removed"}
    /\ \E self \in {EventSensor_init(entry.data)} :
       LET known == ENTRY_ID \in domain_data.entries
       IN  /\ \E notify \in (IF known THEN Notifies(entry, entry) ELSE {FALSE}) :
                 /\ listener_calls + update_listeners <= MaxTasks
                 /\ listener_calls' =
                       IF notify THEN listener_calls + update_listeners ELSE listener_calls
           /\ sensor_data' = self.sensor_data
           /\ _name' = self._name
           /\ _event' = self._event
           /\ _state_key' = self._state_key
           /\ _event_data' = self._event_data
           /\ _state_map' = self._state_map
           /\ _unique_id' = self._unique_id
           /\ _event_listener' = self._event_listener
           /\ _state' = self._state
           /\ _attributes' = self._attributes
           /\ domain_data' = [present |-> TRUE, entries |-> domain_data.entries \cup {ENTRY_ID}]
           /\ update_listeners' = IF known THEN update_listeners ELSE update_listeners + 1
    /\ entry_state' = "loaded"
    /\ lifecycle' = "constructed"
    /\ last_state' = None
    /\ last' = NoCall
    /\ last_accepted' = NoEvent
    /\ UNCHANGED <<entry, reload_tasks, last_update, bus_listeners>>

entity_vars ==
    <<config_vars, _event_listener, _state, _attributes, lifecycle, last_state,
      bus_listeners, last, last_accepted>>

\* The host's options flow stores new options in the entry.
options_flow_update(options) ==
    /\ entry_state = "loaded"
    /\ \E notify \in Notifies(entry.options, options) :
          /\ listener_calls + update_listeners <= MaxTasks
          /\ listener_calls' =
                IF notify THEN listener_calls + update_listeners ELSE listener_calls
    /\ entry' = [entry EXCEPT !.options = options]
    /\ UNCHANGED <<entry_state, domain_data, update_listeners, reload_tasks, last_update,
                   entity_vars>>

(***************************************************************************)
(* update_listener, lines 95-112: one of the calls the host created runs.  *)
(* Options of more than one key come from the options flow and carry the   *)
(* name.                                                                   *)
(***************************************************************************)
\* A variant of the listener that replaces the data and keeps the options.
update_listener_keeps_options ==
    /\ listener_calls > 0
    /\ LET changes == Cardinality(DOMAIN entry.options) > 1 /\ ~ConfEq(entry.data, entry.options)
       IN  IF changes
           THEN /\ entry' = [data |-> entry.options, options |-> entry.options,
                             title |-> entry.options.name,
                             unique_id |-> make_unique_id(entry.options)]
                /\ listener_calls - 1 + update_listeners <= MaxTasks
                /\ listener_calls' = listener_calls - 1 + update_listeners
                /\ reload_tasks < MaxTasks
                /\ reload_tasks' = reload_tasks + 1
                /\ last_update' = "applied"
           ELSE /\ listener_calls' = listener_calls - 1
                /\ last_update' = "unchanged"
                /\ UNCHANGED <<entry, reload_tasks>>
    /\ UNCHANGED <<entry_state, domain_data, update_listeners, entity_vars>>

\* A variant of the listener that takes options of a single key as a change.
update_listener_any_options ==
    /\ listener_calls > 0
    /\ LET changes == Cardinality(DOMAIN entry.options) > 0 /\ ~ConfEq(entry.data, entry.options)
       IN  IF changes
           THEN /\ entry' = [data |-> entry.options, options |-> NoData,
                             title |-> ConfGet(entry.options, "name", None),
                             unique_id |-> make_unique_id(entry.options)]
                /\ listener_calls - 1 + update_listeners <= MaxTasks
                /\ listener_calls' = listener_calls - 1 + update_listeners
                /\ reload_tasks < MaxTasks
                /\ reload_tasks' = reload_tasks + 1
                /\ last_update' = "applied"
           ELSE /\ listener_calls' = listener_calls - 1
                /\ last_update' = "unchanged"
                /\ UNCHANGED <<entry, reload_tasks>>
    /\ UNCHANGED <<entry_state, domain_data, update_listeners, entity_vars>>

update_listener ==
    /\ listener_calls > 0
    /\ LET changes == Cardinality(DOMAIN entry.options) > 1 /\ ~ConfEq(entry.data, entry.options)
       IN  IF changes
           THEN /\ entry' = [data |-> entry.options, options |-> NoData,
                             title |-> entry.options.name,
                             unique_id |-> make_unique_id(entry.options)]
                /\ listener_calls - 1 + update_listeners <= MaxTasks
                /\ listener_calls' = listener_calls - 1 + update_listeners
                /\ reload_tasks < MaxTasks
                /\ reload_tasks' = reload_tasks + 1
                /\ last_update' = "applied"
           ELSE /\ listener_calls' = listener_calls - 1
                /\ last_update' = "unchanged"
                /\ UNCHANGED <<entry, reload_tasks>>
    /\ UNCHANGED <<entry_state, domain_data, update_listeners, entity_vars>>

(***************************************************************************)
(* The host's async_reload, created at line 112: it unloads the entry,     *)
(* which removes the entity (async_will_remove_from_hass), and then sets   *)
(* the entry up again (async_setup_entry).                                 *)
(***************************************************************************)
async_reload_unload ==
    /\ reload_tasks > 0
    /\ entry_state = "loaded"
    /\ lifecycle \in {"added", "removed"}
    /\ reload_tasks' = reload_tasks - 1
    /\ entry_state' = "not_loaded"
    /\ IF _event_listener /= None
       THEN /\ bus_listeners' = bus_listeners \ {_event_listener}
            /\ _event_listener' = None
       ELSE UNCHANGED <<bus_listeners, _event_listener>>
    /\ lifecycle' = "removed"
    /\ last' = NoCall
    /\ UNCHANGED <<entry, domain_data, update_listeners, listener_calls, last_update,
                   config_vars, _state, _attributes, last_state, last_accepted>>

\* The entity: one entry set up once, its entity added, fed events and removed.
Next ==
    \/ async_setup_entry
    \/ async_added_to_hass_await
    \/ \E restored \in LastStates \cup {None} : async_added_to_hass_resume(restored)
    \/ \E event \in Events : async_update_sensor(event)
    \/ \E event \in Events : bus_fire_unheard(event)
    \/ async_will_remove_from_hass

Spec == Init /\ [][Next]_vars

\* The config entry: set up, edited through the options flow, updated by the
\* listener and reloaded.
NextEntry ==
    \/ async_setup_entry
    \/ async_added_to_hass_await
    \/ \E restored \in LastStates \cup {None} : async_added_to_hass_resume(restored)
    \/ \E options \in OptionChoices : options_flow_update(options)
    \/ update_listener
    \/ async_reload_unload

SpecEntry == Init /\ [][NextEntry]_vars

\* One entity driven by any sequence of add and remove calls, an add after an
\* add included.
NextAnyOrder ==
    \/ async_setup_entry
    \/ async_added_to_hass_await
    \/ async_added_to_hass_again_await
    \/ \E restored \in LastStates \cup {None} : async_added_to_hass_resume(restored)
    \/ \E event \in Events : async_update_sensor(event)
    \/ \E event \in Events : bus_fire_unheard(event)
    \/ async_will_remove_from_hass

SpecAnyOrder == Init /\ [][NextAnyOrder]_vars

\* The user's one edit of the options: the first thing that happens to the
\* options of the entry.
options_flow_update_once(options) ==
    /\ last_update = "none"
    /\ listener_calls = 0
    /\ entry.options = NoData
    /\ options_flow_update(options)

\* The config entry with one edit of the options.  The host's event loop runs
\* every call and task that was created, and completes every setup and add.
NextOneEdit ==
    \/ async_setup_entry
    \/ async_added_to_hass_await
    \/ \E restored \in LastStates \cup {None} : async_added_to_hass_resume(restored)
    \/ \E options \in OptionChoices : options_flow_update_once(options)
    \/ update_listener
    \/ async_reload_unload

SpecOneEdit ==
    /\ Init
    /\ [][NextOneEdit]_vars
    /\ WF_vars(async_setup_entry)
    /\ WF_vars(async_added_to_hass_await)
    /\ WF_vars(\E restored \in LastStates \cup {None} : async_added_to_hass_resume(restored))
    /\ WF_vars(update_listener)
    /\ WF_vars(async_reload_unload)

(***************************************************************************)
(* Properties.                                                             *)
(***************************************************************************)
\* Every key/value pair of the filter is present, with an equal value, in data.
ItemsSubset(filter, data) ==
    \A i \in DOMAIN filter : ItemIn(filter[i][1], filter[i][2], data)

\* The last event fired was handed to the entity's callback.
Delivered == last.calls > 0

HasStateKey(event) == DictHas(event.data, S(_state_key))

\* C1: a delivered event is accepted if and only if every key/value pair of the
\* coerced filter is present and equal in the event's data (non-strict subset:
\* data equal to the filter is accepted too).  Stated for events that carry the
\* state key, so that the callback can run to its end.
C1_AcceptedIffSubset ==
    (Delivered /\ HasStateKey(last.event))
        => (last.result = "accepted" <=> ItemsSubset(_event_data, last.event.data))

\* C2: after an accepted event the state is state_map[v] when v, the value the
\* event carries under the state key, is a key of the remap table, and v itself
\* otherwise; the table is applied once.
C2_StateIsRemappedOnce ==
    last.result = "accepted" =>
        LET v == DictGet(last.event.data, S(_state_key))
        IN  /\ DictHas(_state_map, v) => _state = DictGet(_state_map, v)
            /\ ~DictHas(_state_map, v) => _state = v

\* C2's case: the table maps v to a value that is itself a key of the table, and
\* the state is the first mapping.
C2_Witness ==
    /\ last.result = "accepted"
    /\ LET v == DictGet(last.event.data, S(_state_key))
       IN  /\ DictHas(_state_map, v)
           /\ DictHas(_state_map, DictGet(_state_map, v))
           /\ DictGet(_state_map, DictGet(_state_map, v)) /= DictGet(_state_map, v)
           /\ _state = DictGet(_state_map, v)

\* C3: a delivered event that does not satisfy the filter leaves state and
\* attributes as they were and makes no host state write.
C3_NonMatchingLeavesUnchanged ==
    [][(last'.calls > 0 /\ ~ItemsSubset(_event_data, last'.event.data))
         => (/\ _state' = _state
             /\ _attributes' = _attributes
             /\ last'.writes = 0)]_vars

\* C3's case: a restored entity received an event that fails the filter on the
\* value of a key it carries, and still shows the restored state.
C3_Witness ==
    /\ Delivered
    /\ ~ItemsSubset(_event_data, last.event.data)
    /\ \E i \in DOMAIN _event_data : DictHas(last.event.data, _event_data[i][1])
    /\ last_state /= None
    /\ _state = last_state.state
    /\ _attributes = last_state.attributes

\* C4, with "accepted" read as what the callback accepts: state and attributes
\* are those derived from the most recent accepted event, however many events
\* that were not accepted followed it, and an accepted event makes exactly one
\* host state write.
C4_MirrorsLastAccepted ==
    /\ last_accepted /= NoEvent =>
        /\ _state = NewState(_state_map, _state_key, last_accepted.data)
        /\ DictEq(_attributes, NewAttributes(last_accepted))
    /\ last.result = "accepted" => (last.writes = 1 /\ last_accepted = last.event)
    /\ (Delivered /\ last.result /= "accepted") => last.writes = 0

\* C4 with "accepted" read as the spec defines it, filter-matching: the event
\* delivered last, when it satisfies the filter and carries the state key, is
\* the accepted event the entity mirrors.
C4_MirrorsLastMatching ==
    /\ last_accepted /= NoEvent =>
        /\ _state = NewState(_state_map, _state_key, last_accepted.data)
        /\ DictEq(_attributes, NewAttributes(last_accepted))
    /\ (Delivered /\ HasStateKey(last.event) /\ ItemsSubset(_event_data, last.event.data))
          => (last_accepted = last.event /\ last.writes = 1)

\* C4's case: an event was accepted and the event fired last was delivered and
\* not accepted.
C4_Witness ==
    /\ last_accepted /= NoEvent
    /\ Delivered
    /\ last.result = "ignored"
    /\ last.event.data /= last_accepted.data
    /\ _state = NewState(_state_map, _state_key, last_accepted.data)

\* C5: before the first accepted event an added entity shows the restored state
\* and attributes when the host returned a last state, and None and the empty
\* mapping when it returned none; so does an entity not yet added.
C5_RestoredUntilFirstAccepted ==
    last_accepted = NoEvent =>
        IF lifecycle \in {"added", "removed"} /\ last_state /= None
        THEN _state = last_state.state /\ DictEq(_attributes, last_state.attributes)
        ELSE _state = None /\ _attributes = EmptyDict

\* C5's case: a last state with attributes was restored and an event delivered
\* since was not accepted.
C5_Witness ==
    /\ lifecycle = "added"
    /\ last_state /= None
    /\ last_state.attributes /= EmptyDict
    /\ Delivered
    /\ last_accepted = NoEvent
    /\ _state = last_state.state

entity_fields == <<_event_listener, _state, _attributes, bus_listeners, lifecycle>>

\* C6: removal deregisters the callback and clears the stored handle; after it
\* no event changes state or attributes; removal of an entity that is not
\* added (never added, or removed already) changes nothing.
C6_RemovalDeregisters ==
    [][/\ lifecycle' = "removed" => (_event_listener' = None /\ bus_listeners' = {})
       /\ lifecycle = "removed" => (_state' = _state /\ _attributes' = _attributes)
       /\ (async_will_remove_from_hass /\ lifecycle /= "added")
            => UNCHANGED entity_fields]_vars

\* C6's case: after the removal the bus fired an event of the entity's type that
\* passes the filter and carries the state key, and nothing was called.
C6_Witness ==
    /\ lifecycle = "removed"
    /\ _event_listener = None
    /\ last.event.event_type = _event
    /\ ItemsProperSubset(_event_data, last.event.data)
    /\ HasStateKey(last.event)
    /\ last.calls = 0

\* C7: after an accepted event the attributes are the event's data plus
\* "origin" and "time_fired", the two labels winning over event data of the
\* same name, and nothing of the earlier attributes remains.
C7_AttributesAreEventData ==
    last.result = "accepted" =>
        /\ ItemIn(S("origin"), S(last.event.origin), _attributes)
        /\ ItemIn(S("time_fired"), last.event.time_fired, _attributes)
        /\ \A i \in DOMAIN last.event.data :
              last.event.data[i][1] \notin {S("origin"), S("time_fired")}
                  => ItemIn(last.event.data[i][1], last.event.data[i][2], _attributes)
        /\ \A i \in DOMAIN _attributes :
              \/ _attributes[i][1] \in {S("origin"), S("time_fired")}
              \/ DictHas(last.event.data, _attributes[i][1])

\* C7's case: the accepted event carries its own "origin" and "time_fired", and
\* the restored attributes had a key the event does not carry.
C7_Witness ==
    /\ last.result = "accepted"
    /\ DictHas(last.event.data, S("origin"))
    /\ DictHas(last.event.data, S("time_fired"))
    /\ last_state /= None
    /\ \E i \in DOMAIN last_state.attributes :
          ~DictHas(_attributes, last_state.attributes[i][1])

\* What C8 says a raw text becomes.
CoercedText(raw) ==
    IF IntOk(Chars(raw.s)) THEN PyInt(IntOf(Chars(raw.s)))
    ELSE IF FloatOk(Chars(raw.s)) THEN FloatOf(Chars(raw.s))
    ELSE raw

\* The coerced dict holds, for every raw text key, the coerced key, and under it
\* the coerced value of the last raw entry whose key coerces to an equal key;
\* and it holds no other key.
CoercedAs(raw, coerced) ==
    /\ \A i \in DOMAIN raw :
          (raw[i][1].t = "str") =>
              \E j \in DOMAIN coerced :
                  /\ coerced[j][1] = CoercedText(raw[i][1])
                  /\ (/\ raw[i][2].t = "str"
                      /\ \A k \in DOMAIN raw :
                            (k > i) => ~PyEq(_parse_field(raw[k][1]), coerced[j][1]))
                        => coerced[j][2] = CoercedText(raw[i][2])
    /\ \A j \in DOMAIN coerced :
          \E i \in DOMAIN raw : PyEq(_parse_field(raw[i][1]), coerced[j][1])

\* C8: every text key and value of the filter and of the remap table is coerced
\* on its own to an int when it parses as one, else to a float when it parses
\* as one, else kept; the callback matches against the coerced filter.
C8_FieldsCoerced ==
    /\ CoercedAs(ConfGet(sensor_data, "event_data", EmptyDict), _event_data)
    /\ CoercedAs(ConfGet(sensor_data, "state_map", EmptyDict), _state_map)
    /\ last.result = "accepted" => ItemsSubset(_event_data, last.event.data)

\* C8's case: the filter value was given as the text "1" and an event carrying
\* the number 1 under that key was accepted.
C8_Witness ==
    /\ last.result = "accepted"
    /\ LET raw == ConfGet(sensor_data, "event_data", EmptyDict)
       IN  \E i \in DOMAIN raw :
              /\ raw[i][2] = S("1")
              /\ DictHas(last.event.data, raw[i][1])
              /\ DictGet(last.event.data, raw[i][1]) = PyInt(1)

\* C9: the entity's unique id is make_unique_id of the configuration it was
\* built from, whatever that configuration is, and no add, event delivery or
\* removal changes it.
C9_UniqueIdFromConfiguration ==
    /\ [](lifecycle /= "absent" => _unique_id = make_unique_id(sensor_data))
    /\ [][lifecycle /= "absent" => _unique_id' = _unique_id]_vars

\* C9's case: the entity was added, accepted an event and was removed.
C9_Witness ==
    /\ lifecycle = "removed"
    /\ last_accepted /= NoEvent
    /\ _unique_id = make_unique_id(sensor_data)

\* C10: update_listener changes the entry only when its options hold more than
\* one key and differ from its data; then the data becomes the options, the
\* options become empty, the title the options' name, the unique id
\* make_unique_id of the options, and one reload is created.  Otherwise the
\* entry stays as it is and no reload is created.
C10_UpdateListener ==
    [][update_listener =>
         IF Cardinality(DOMAIN entry.options) > 1 /\ ~ConfEq(entry.data, entry.options)
         THEN /\ entry'.data = entry.options
              /\ entry'.options = NoData
              /\ entry'.title = entry.options.name
              /\ entry'.unique_id = make_unique_id(entry.options)
              /\ entry'.unique_id = make_unique_id(entry'.data)
              /\ reload_tasks' = reload_tasks + 1
         ELSE /\ entry' = entry
              /\ reload_tasks' = reload_tasks]_vars

\* C10's case: the listener replaced the data by options that differed from it.
C10_Witness ==
    /\ last_update = "applied"
    /\ entry.options = NoData
    /\ entry.title = entry.data.name
    /\ entry.unique_id = make_unique_id(entry.data)
    /\ reload_tasks = 1

\* C11: a delivered event that satisfies the filter and does not carry the
\* state key raises out of the callback, and makes no host state write.
C11_MissingStateKeyRaises ==
    (Delivered /\ ItemsSubset(_event_data, last.event.data) /\ ~HasStateKey(last.event))
        => (last.result = "raised" /\ last.writes = 0)

\* C11, for the events that pass the callback's own test (line 182): without
\* the state key the callback raises at line 183, before it assigns anything,
\* so state and attributes stay whole and nothing is written.
C11_RaisedLeavesUnchanged ==
    [][(/\ last'.calls > 0
        /\ ItemsProperSubset(_event_data, last'.event.data)
        /\ ~DictHas(last'.event.data, S(_state_key)))
         => (/\ last'.result = "raised"
             /\ last'.writes = 0
             /\ _state' = _state
             /\ _attributes' = _attributes)]_vars

\* C11's case: an entity that mirrors an accepted event received an event that
\* passes the filter without the state key, and still mirrors the earlier one.
C11_Witness ==
    /\ last.result = "raised"
    /\ last_accepted /= NoEvent
    /\ _state = NewState(_state_map, _state_key, last_accepted.data)
    /\ DictEq(_attributes, NewAttributes(last_accepted))

\* C12: the callback is subscribed only after the awaited restore was applied:
\* while the restore is pending the entity has no callback on the bus, an
\* event fired then is not received and changes nothing, and the restore is
\* applied to an entity that no event has touched yet.
C12_RestoreThenSubscribe ==
    [][/\ lifecycle = "restoring"
          => /\ bus_listeners = {}
             /\ _event_listener = None
             /\ last_accepted = NoEvent
             /\ lifecycle' = "restoring"
                  => (last'.calls = 0 /\ _state' = _state /\ _attributes' = _attributes)
       /\ (lifecycle = "restoring" /\ lifecycle' = "added")
          => /\ _state = None
             /\ _attributes = EmptyDict
             /\ _event_listener' \in bus_listeners'
             /\ last_state' /= None
                  => (_state' = last_state'.state /\ _attributes' = last_state'.attributes)
       /\ (last_accepted /= NoEvent /\ lifecycle' = lifecycle /\ last_state' = last_state
             /\ last_accepted' = last_accepted)
          => (_state' = _state /\ _attributes' = _attributes)]_vars

\* C12's case: an event the filter would accept was fired while the restore
\* was pending, and the entity did not receive it.
C12_Witness ==
    /\ lifecycle = "restoring"
    /\ last.calls = 0
    /\ last.event /= NoEvent
    /\ last.event.event_type = _event
    /\ ItemsProperSubset(_event_data, last.event.data)
    /\ HasStateKey(last.event)
    /\ _state = None

\* C13: after any sequence of add and remove calls the entity has at most one
\* callback on the bus, and after a removal it has none.
C13_AtMostOneCallback ==
    /\ Cardinality(bus_listeners) <= 1
    /\ lifecycle = "removed" => bus_listeners = {}

\* C14: over every sequence of setups and reloads at most one update listener
\* is registered for the entry: it is registered, and the entry id recorded,
\* only by a setup that finds the id not recorded; a recorded id stays; and
\* every setup builds a new EventSensor from the entry's current data.
C14_OneUpdateListener ==
    [][/\ update_listeners' <= 1
       /\ (update_listeners' = 1) <=> (ENTRY_ID \in domain_data'.entries)
       /\ domain_data.entries \subseteq domain_data'.entries
       /\ update_listeners' /= update_listeners
            => /\ ENTRY_ID \notin domain_data.entries
               /\ update_listeners' = update_listeners + 1
               /\ entry_state = "not_loaded" /\ entry_state' = "loaded"
       /\ (entry_state = "not_loaded" /\ entry_state' = "loaded")
            => /\ ENTRY_ID \in domain_data'.entries
               /\ sensor_data' = entry.data
               /\ _unique_id' = make_unique_id(entry.data)
               /\ lifecycle' = "constructed"
               /\ _event_listener' = None
               /\ _state' = None
               /\ _attributes' = EmptyDict]_vars

\* C14's case: the entry was set up again after an applied update and its
\* reload, with the one update listener of the first setup.
C14_Witness ==
    /\ last_update = "applied"
    /\ reload_tasks = 0
    /\ entry_state = "loaded"
    /\ lifecycle = "constructed"
    /\ sensor_data = entry.data
    /\ update_listeners = 1
    /\ ENTRY_ID \in domain_data.entries

\* C15, step by step: a listener run that replaces the data leaves the options
\* empty, makes the host call the listener again and creates one reload; a
\* listener run that finds the options empty changes nothing and creates no
\* reload; the data is replaced and a reload created only by a run that
\* empties non-empty options; and empty options are filled only by an edit.
C15_OptionsEmptied ==
    [][/\ (update_listener /\ entry' /= entry)
            => /\ entry'.options = NoData
               /\ entry'.data = entry.options
               /\ listener_calls' = listener_calls - 1 + update_listeners
               /\ listener_calls' > 0
               /\ reload_tasks' = reload_tasks + 1
       /\ (update_listener /\ entry.options = NoData)
            => /\ entry' = entry
               /\ reload_tasks' = reload_tasks
               /\ listener_calls' = listener_calls - 1
       /\ (entry'.data /= entry.data \/ reload_tasks' > reload_tasks)
            => (entry.options /= NoData /\ entry'.options = NoData)
       /\ (entry.options = NoData /\ entry'.options /= NoData)
            => \E options \in OptionChoices : options_flow_update(options)]_vars

\* C15: the options-update cycle quiesces.  With one edit of the options the
\* data is replaced at most once and at most one reload is created, and in
\* the end no listener call and no reload is pending and the entry is loaded.
C15_Quiesces ==
    /\ C15_OptionsEmptied
    /\ [][last_update = "applied"
            => (entry' = entry /\ reload_tasks' <= reload_tasks /\ last_update' /= "none")]_vars
    /\ <>[](listener_calls = 0 /\ reload_tasks = 0 /\ entry_state = "loaded")

\* C15's case: the edit was applied, the listener the update re-invoked found
\* nothing to change, and the one reload has run.
C15_Witness ==
    /\ last_update = "unchanged"
    /\ entry.options = NoData
    /\ entry.data /= sensor_data
    /\ listener_calls = 0
    /\ reload_tasks = 0
    /\ entry_state = "not_loaded"

====
